---- MODULE Spec2Model ----
(***************************************************************************)
(* A model of backend/lambda_function.py: the Lambda entry point           *)
(* lambda_handler, the page scraper scrape_url with its image harvester    *)
(* _collect_images, the uploader _upload_image_to_s3 and the search client *)
(* search_brave.                                                           *)
(*                                                                         *)
(* Three specifications share the variables:                               *)
(*   Spec        one invocation of lambda_handler, from the event to the   *)
(*               response (or to the exception that leaves the handler);   *)
(*   SpecExtract the text extraction of scrape_url on a bounded family of  *)
(*               parsed pages;                                             *)
(*   SpecStore   repeated calls of _upload_image_to_s3 against one bucket. *)
(***************************************************************************)
EXTENDS Integers, Sequences, FiniteSets, TLC

VARIABLES
    pc,        \* position of the invocation
    event,     \* the API Gateway event: method and body
    bucket,    \* IMAGE_BUCKET is a non-empty string
    keyword,   \* body["keyword"].strip(), a sequence of characters
    target,    \* body["url"].strip()
    page,      \* the parsed document (soup): url and top-level nodes
    fields,    \* the non-image part of the result dict being built
    images,    \* the list `results` / `images` being built
    idx,       \* how many image elements / search items the loop has taken
    cur,       \* the image element or item taken by the last loop step
    tail,      \* what lies behind the point where the loop stopped
    sent,      \* the kinds of outbound request issued so far
    response,  \* what the caller gets
    store,     \* the bucket: the set of object keys put so far
    given,     \* per source URL, the storage URLs returned so far
    upstream,  \* the outcomes of the page fetch, web search and image search
    twin,      \* a second document, equal to `page` outside removed subtrees
    twinFields \* what the extraction gives for `twin`

vars == <<pc, event, bucket, keyword, target, page, fields, images, idx, cur,
          tail, sent, response, store, given, upstream, twin,
          twinFields>>

None == [t |-> "none"]

(***************************************************************************)
(* Program constants.                                                      *)
(***************************************************************************)
MAX_IMAGES == 10
MinTextLen == 15
MaxTextLen == 1500
MaxMatches == 20

(***************************************************************************)
(* Bounds of the model.                                                    *)
(***************************************************************************)
MaxTop == 2        \* top-level nodes of a page, besides the bulk paragraphs
MaxBulk == 21      \* distinct matching paragraphs appended to a page
MaxMisses == 2     \* elements or items of one invocation that yield no image

RemovedTags == {"script", "style", "nav", "footer", "header", "aside",
                "noscript", "iframe", "svg", "form"}

CandidateTags == {"p", "h1", "h2", "h3", "h4", "li", "td", "dt", "dd",
                  "blockquote"}

(***************************************************************************)
(* Text.  A text node is a short run of letters followed by `pad` filler   *)
(* characters (a character that is no letter and no space), so that texts  *)
(* of 15, 16, 1499 and 1500 characters stay small values.  The text of an  *)
(* element is the sequence of its non-blank text nodes; get_text joins     *)
(* them with the separator.  Two texts are the same string exactly when    *)
(* they are the same sequence of nodes, because neither the letters nor    *)
(* the filler contain the separator.                                       *)
(***************************************************************************)
T(s, pad) == [t |-> "text", s |-> s, pad |-> pad]
E(tag, kids) == [t |-> "elem", tag |-> tag, kids |-> kids]
Meta(name, content) ==
    [t |-> "elem", tag |-> "meta", kids |-> <<>>, name |-> name,
     content |-> content]
\* a str value: its content without the surrounding whitespace, and whether
\* whitespace surrounds it
Str(v, ws) == [t |-> "str", v |-> v, ws |-> ws]

IsElem(n) == n.t = "elem"
IsBlank(n) == n.t = "text" /\ n.s = <<>> /\ n.pad = 0

LowerChar(c) == CASE c = "A" -> "a" [] c = "B" -> "b" [] OTHER -> c
Lower(s) == [i \in 1..Len(s) |-> LowerChar(s[i])]

Contains(s, k) ==
    \E i \in 1..(Len(s) - Len(k) + 1) : SubSeq(s, i, i + Len(k) - 1) = k

RECURSIVE SumLen(_)
SumLen(text) ==
    IF text = <<>> THEN 0
    ELSE Len(Head(text).s) + Head(text).pad + SumLen(Tail(text))

\* len(text) for text = " ".join(stripped non-empty strings)
TextLen(text) == IF text = <<>> THEN 0 ELSE SumLen(text) + (Len(text) - 1)

\* kw_lower in text.lower(): the keyword holds letters only, so it lies
\* inside the letters of one node
KwIn(kw, text) ==
    \E i \in 1..Len(text) : Contains(Lower(text[i].s), Lower(kw))

(***************************************************************************)
(* The document tree.                                                      *)
(***************************************************************************)
RECURSIVE DecomposeBuggy(_)
DecomposeBuggy(kids) ==
    IF kids = <<>> THEN <<>>
    ELSE LET h == Head(kids) IN
         (IF IsElem(h) /\ h.tag \in RemovedTags \ {"svg"} THEN <<>>
          ELSE IF IsElem(h)
               THEN << [h EXCEPT !.kids = DecomposeBuggy(h.kids)] >>
               ELSE << h >>)
         \o DecomposeBuggy(Tail(kids))

\* for tag in soup([...]): tag.decompose()
RECURSIVE Decompose(_)
Decompose(kids) ==
    IF kids = <<>> THEN <<>>
    ELSE LET h == Head(kids) IN
         (IF IsElem(h) /\ h.tag \in RemovedTags THEN <<>>
          ELSE IF IsElem(h)
               THEN << [h EXCEPT !.kids = Decompose(h.kids)] >>
               ELSE << h >>)
         \o Decompose(Tail(kids))

\* find_all(tags): the elements with one of the tags, in document order
RECURSIVE FindAll(_, _)
FindAll(kids, tags) ==
    IF kids = <<>> THEN <<>>
    ELSE LET h == Head(kids) IN
         (IF IsElem(h)
          THEN (IF h.tag \in tags THEN << h >> ELSE <<>>)
               \o FindAll(h.kids, tags)
          ELSE <<>>)
         \o FindAll(Tail(kids), tags)

\* get_text(strip=True): the stripped, non-empty strings below, in order
RECURSIVE Strings(_)
Strings(kids) ==
    IF kids = <<>> THEN <<>>
    ELSE LET h == Head(kids) IN
         (IF IsElem(h) THEN Strings(h.kids)
          ELSE IF IsBlank(h) THEN <<>> ELSE << h >>)
         \o Strings(Tail(kids))

GetText(el) == Strings(el.kids)

\* title_tag.get_text(strip=True) if title_tag else url
TitleOf(soup, url) ==
    LET found == FindAll(soup, {"title"}) IN
    IF found = <<>> THEN [kind |-> "url", url |-> url]
    ELSE [kind |-> "text", sep |-> "", strings |-> GetText(found[1])]

\* re.compile(r"^description$", re.I) against the name attribute
NameMatches(name) == name \in {"description", "Description", "DESCRIPTION"}

\* str.strip()
Strip(x) == Str(x.v, FALSE)

IsDescriptionMeta(n) == n.tag = "meta" /\ "name" \in DOMAIN n /\ NameMatches(n.name)

\* (meta.get("content") or "").strip() if meta else ""
DescriptionOf(soup) ==
    LET metas == SelectSeq(FindAll(soup, {"meta"}), IsDescriptionMeta) IN
    IF metas = <<>> THEN Str(<<>>, FALSE)
    ELSE IF metas[1].content = None THEN Str(<<>>, FALSE)
         ELSE Strip(metas[1].content)

\* 15 < len(text) < 1500
LengthOkBuggy(text) == MinTextLen <= TextLen(text) /\ TextLen(text) < MaxTextLen

LengthOk(text) == MinTextLen < TextLen(text) /\ TextLen(text) < MaxTextLen

InSeq(x, s) == \E i \in 1..Len(s) : s[i] = x

\* the loop of scrape_url over the candidate elements; `seen` holds exactly
\* the texts appended to `matches`
RECURSIVE MatchLoop(_, _, _)
MatchLoop(cands, kw, matches) ==
    IF cands = <<>> THEN matches
    ELSE LET text == GetText(Head(cands)) IN
         MatchLoop(Tail(cands), kw,
                   IF KwIn(kw, text) /\ LengthOk(text) /\ ~InSeq(text, matches)
                   THEN Append(matches, text)
                   ELSE matches)

FirstN(s, n) == SubSeq(s, 1, IF Len(s) < n THEN Len(s) ELSE n)

Extract(doc, kw) ==
    LET soup == Decompose(doc.kids)
        matches == MatchLoop(FindAll(soup, CandidateTags), kw, <<>>)
    IN  [mode |-> "scrape", keyword |-> kw, url |-> doc.url,
         title |-> TitleOf(soup, doc.url),
         description |-> DescriptionOf(soup),
         matches |-> FirstN(matches, MaxMatches),
         match_count |-> Len(matches)]

(***************************************************************************)
(* The uploader.  What the image's server and the bucket answer to one    *)
(* call is a record: net (the transport's outcome), status, ctype (the    *)
(* Content-Type header, None when absent) and put (the outcome of          *)
(* put_object).  The call gives back ret (the storage URL, or None), the   *)
(* key it has put (or None) and the kinds of request it issued.            *)
(***************************************************************************)
CType(main, sub, params) == [main |-> main, sub |-> sub, params |-> params]

\* raise_for_status() / resp.ok: 4xx and 5xx are errors
StatusOk(status) == status < 400

\* resp.headers.get("Content-Type", "image/jpeg").split(";")[0].strip()
ContentType(header) ==
    IF header = None THEN [main |-> "image", sub |-> "jpeg"]
    ELSE [main |-> header.main, sub |-> header.sub]

\* mimetypes.guess_extension
GuessExtension(ct) ==
    CASE ct.main = "image" /\ ct.sub = "jpeg" -> ".jpg"
      [] ct.main = "image" /\ ct.sub = "png" -> ".png"
      [] ct.main = "image" /\ ct.sub = "gif" -> ".gif"
      [] ct.main = "text" /\ ct.sub = "html" -> ".html"
      [] OTHER -> ""

\* ext = guess_extension(content_type) or ".jpg"; ".jpe" becomes ".jpg"
ExtensionOf(ct) ==
    LET ext == IF GuessExtension(ct) = "" THEN ".jpg" ELSE GuessExtension(ct)
    IN  IF ext = ".jpe" THEN ".jpg" ELSE ext

\* hashlib.md5(img_url.encode()).hexdigest(): one digest per URL
Md5(url) == [md5 |-> url]

S3Key(url, ct) == [dir |-> "images", name |-> Md5(url), ext |-> ExtensionOf(ct)]

\* f"https://{IMAGE_BUCKET}.s3.{AWS_REGION}.amazonaws.com/{s3_key}"
StorageUrl(key) ==
    [t |-> "url", host |-> "IMAGE_BUCKET.s3.AWS_REGION.amazonaws.com", key |-> key]

Raised(exc) == [t |-> "raise", exc |-> exc]
IsRaised(r) == r.t = "raise"

Outcome(ret, key, reqs) == [ret |-> ret, key |-> key, sent |-> reqs]

UploadRaisesOnPut(url, a) ==
    IF a.net # "ok" \/ ~StatusOk(a.status)
    THEN Outcome(None, None, {"imgfetch"})
    ELSE LET ct == ContentType(a.ctype) IN
         IF ct.main # "image" THEN Outcome(None, None, {"imgfetch"})
         ELSE IF a.put # "ok"
              THEN Outcome(Raised("ClientError"), None, {"imgfetch", "put"})
              ELSE Outcome(StorageUrl(S3Key(url, ct)), S3Key(url, ct),
                           {"imgfetch", "put"})

\* _upload_image_to_s3: every exception of the fetch, of raise_for_status
\* and of put_object ends in `except Exception: return None`
UploadImage(url, a) ==
    IF a.net # "ok" \/ ~StatusOk(a.status)
    THEN Outcome(None, None, {"imgfetch"})
    ELSE LET ct == ContentType(a.ctype) IN
         IF ct.main # "image" THEN Outcome(None, None, {"imgfetch"})
         ELSE IF a.put # "ok"
              THEN Outcome(None, None, {"imgfetch", "put"})
              ELSE Outcome(StorageUrl(S3Key(url, ct)), S3Key(url, ct),
                           {"imgfetch", "put"})

Answer(net, status, ctype, put) ==
    [net |-> net, status |-> status, ctype |-> ctype, put |-> put]

Jpeg == CType("image", "jpeg", "")

\* the answers of a source server and of the bucket
Answers ==
    { Answer("timeout", 0, None, "ok"),
      Answer("transport", 0, None, "ok"),
      Answer("ok", 404, CType("text", "html", ""), "ok"),
      Answer("ok", 200, CType("text", "html", "; charset=utf-8"), "ok"),
      Answer("ok", 200, Jpeg, "fail"),
      Answer("ok", 200, Jpeg, "ok"),
      Answer("ok", 200, None, "ok"),
      Answer("ok", 200, CType("image", "png", "; q=1"), "ok"),
      Answer("ok", 200, CType("image", "x-unknown", ""), "ok") }

ImageUrls == {"https://site.test/dir/a.jpg", "https://cdn.test/b"}

(***************************************************************************)
(* SpecStore: calls of _upload_image_to_s3 against one bucket, in one      *)
(* request or in several.                                                  *)
(***************************************************************************)
NoneGiven == [u \in ImageUrls |-> {}]

InitStore ==
    /\ pc = "s_idle"
    /\ store = {} /\ given = NoneGiven
    /\ cur = None /\ sent = {}
    /\ bucket = TRUE
    /\ event = None /\ keyword = <<>> /\ target = None /\ page = None
    /\ fields = None /\ images = <<>> /\ idx = 0 /\ tail = None
    /\ response = None /\ twin = None /\ twinFields = None
    /\ upstream = None

StoreUpload ==
    /\ pc = "s_idle"
    /\ \E u \in ImageUrls, a \in Answers :
         LET o == UploadImage(u, a) IN
         /\ cur' = [url |-> u, answer |-> a, ret |-> o.ret]
         /\ sent' = sent \cup o.sent
         /\ store' = IF o.key = None THEN store ELSE store \cup {o.key}
         /\ given' = IF o.ret = None THEN given
                     ELSE [given EXCEPT ![u] = @ \cup {o.ret}]
    /\ UNCHANGED <<pc, event, bucket, keyword, target, page, fields, images,
                   idx, tail, response, upstream, twin, twinFields>>

NextStore == StoreUpload

SpecStore == InitStore /\ [][NextStore]_vars

\* C7: two successful uploads of the same source URL, whatever its server
\* answers each time, give the same storage key and the same storage URL:
\* one source URL never has two stored objects.
C7_SameUrlSameObject ==
    \A u \in ImageUrls :
      /\ Cardinality(given[u]) <= 1
      /\ Cardinality({k \in store : k.name = Md5(u)}) <= 1

(***************************************************************************)
(* SpecExtract: the extraction applied to a bounded family of documents.   *)
(* A document is up to MaxTop nodes drawn from Items followed by a run of  *)
(* distinct matching paragraphs; its twin differs from it only inside the  *)
(* subtrees rooted at a removed tag.                                       *)
(***************************************************************************)
RemovedItem(r) ==
    E(r, << E("title", << T(<<"b">>, 3) >>),
            Meta("description", Str(<<"d2">>, FALSE)),
            E("p", << T(<<"a", "b">>, 30) >>) >>)

Items ==
    { E("p", << T(<<"a">>, MinTextLen) >>),
      E("h2", << T(<<"a">>, MinTextLen - 1) >>),
      E("td", << T(<<"A", "b">>, MaxTextLen - 3) >>),
      E("dd", << T(<<"a">>, MaxTextLen - 1) >>),
      E("li", << E("p", << T(<<"a">>, MinTextLen) >>) >>),
      E("p", << T(<<"a">>, 10), E("script", << T(<<"a", "b">>, 5) >>),
                T(<<"b">>, 10) >>),
      E("dt", << T(<<>>, 0), T(<<"a">>, 6), E("b", << T(<<"b">>, 7) >>) >>),
      E("title", << T(<<"a">>, 3) >>),
      Meta("Description", Str(<<"d1">>, TRUE)),
      Meta("description", None),
      Meta("keywords", Str(<<"d3">>, FALSE)),
      E("div", << T(<<"a">>, 20) >>) }
    \cup { RemovedItem(r) : r \in RemovedTags }

Fillings ==
    { << E("p", << T(<<"A", "b">>, 50) >>), E("title", << T(<<"a">>, 5) >>),
         Meta("description", Str(<<"d3">>, FALSE)) >> }

Keywords == { <<"a">>, <<"A", "b">> }

BulkParagraphs(n) == [i \in 1..n |-> E("p", << T(<<"a", "B">>, 20 + i) >>)]

TopLevels == UNION { [1..n -> Items] : n \in 0..MaxTop }

PageUrl == "https://site.test/dir/page.html"

Documents ==
    { [url |-> PageUrl, kids |-> top \o BulkParagraphs(n)] :
        top \in TopLevels, n \in {0, MaxBulk - 2, MaxBulk} }

\* the same tree with other content below every removed tag
RECURSIVE Refill(_, _)
Refill(kids, filling) ==
    IF kids = <<>> THEN <<>>
    ELSE LET h == Head(kids) IN
         (IF IsElem(h) /\ h.tag \in RemovedTags
          THEN << [h EXCEPT !.kids = filling] >>
          ELSE IF IsElem(h)
               THEN << [h EXCEPT !.kids = Refill(h.kids, filling)] >>
               ELSE << h >>)
         \o Refill(Tail(kids), filling)

InitExtract ==
    /\ pc = "x_start"
    /\ page \in Documents
    /\ keyword \in Keywords
    /\ \E f \in Fillings : twin = [page EXCEPT !.kids = Refill(page.kids, f)]
    /\ fields = None /\ twinFields = None
    /\ event = None /\ bucket = FALSE /\ target = None
    /\ images = <<>> /\ idx = 0 /\ cur = None /\ tail = None
    /\ sent = {} /\ response = None /\ store = {} /\ given = <<>>
    /\ upstream = None

ExtractStep ==
    /\ pc = "x_start"
    /\ fields' = Extract(page, keyword)
    /\ twinFields' = Extract(twin, keyword)
    /\ pc' = "x_done"
    /\ UNCHANGED <<event, bucket, keyword, target, page, images, idx, cur,
                   tail, sent, response, store, given, upstream, twin>>

NextExtract == ExtractStep

SpecExtract == InitExtract /\ [][NextExtract]_vars

(***************************************************************************)
(* Claims about the extraction (checked under SpecExtract).                *)
(***************************************************************************)
RECURSIVE PickFrom(_, _, _)
PickFrom(s, keep, i) ==
    IF i > Len(s) THEN <<>>
    ELSE (IF i \in keep THEN << s[i] >> ELSE <<>>) \o PickFrom(s, keep, i + 1)

\* s without the later occurrences of a value that occurred before
FirstOccurrences(s) ==
    PickFrom(s, {i \in 1..Len(s) : \A j \in 1..(i - 1) : s[j] # s[i]}, 1)

\* the texts of the candidate elements left in the document, in order
CandidateTexts(doc) ==
    LET c == FindAll(Decompose(doc.kids), CandidateTags) IN
    [i \in 1..Len(c) |-> GetText(c[i])]

\* those holding the keyword, longer than 15 and shorter than 1500
Qualifying(doc, kw) ==
    LET Q(text) == /\ KwIn(kw, text)
                   /\ TextLen(text) > 15
                   /\ TextLen(text) < 1500
    IN  SelectSeq(CandidateTexts(doc), Q)

ReferenceList(doc, kw) == FirstOccurrences(Qualifying(doc, kw))

\* C6: matches is the first 20 entries of the reference list L (the
\* candidate texts in document order that hold the keyword whatever the
\* case and have 15 < length < 1500, first occurrences only), match_count
\* is the length of L; so no match has length <= 15 or >= 1500 and no two
\* matches are equal.
C6_MatchesAreReferencePrefix ==
    pc = "x_done" =>
      LET L == ReferenceList(page, keyword)
          m == fields.matches
      IN  /\ Len(m) = (IF Len(L) < 20 THEN Len(L) ELSE 20)
          /\ \A i \in 1..Len(m) : m[i] = L[i]
          /\ fields.match_count = Len(L)
          /\ \A i \in 1..Len(m) : TextLen(m[i]) > 15 /\ TextLen(m[i]) < 1500
          /\ \A i, j \in 1..Len(m) : i # j => m[i] # m[j]

\* a page with more than 20 matches, a repeated qualifying text and a
\* keyword-bearing candidate of exactly 15 characters
C6_Witness ==
    /\ pc = "x_done"
    /\ fields.match_count > MaxMatches
    /\ Len(fields.matches) = MaxMatches
    /\ Len(Qualifying(page, keyword)) > fields.match_count
    /\ \E i \in 1..Len(CandidateTexts(page)) :
          /\ KwIn(keyword, CandidateTexts(page)[i])
          /\ TextLen(CandidateTexts(page)[i]) = 15

\* C9: two pages that differ only inside removed subtrees give the same
\* matches, match_count, title and description.
C9_RemovedContentNeverContributes ==
    pc = "x_done" =>
      /\ fields.matches = twinFields.matches
      /\ fields.match_count = twinFields.match_count
      /\ fields.title = twinFields.title
      /\ fields.description = twinFields.description

\* the keyword-bearing paragraphs, the first title and the first
\* description meta of the two unpruned trees all differ
C9_Witness ==
    /\ pc = "x_done"
    /\ twin # page
    /\ LET Texts(doc) ==
             LET c == FindAll(doc.kids, CandidateTags) IN
             [i \in 1..Len(c) |-> GetText(c[i])]
           Hits(doc) ==
             {i \in 1..Len(Texts(doc)) : KwIn(keyword, Texts(doc)[i])}
       IN  /\ {Texts(page)[i] : i \in Hits(page)}
                # {Texts(twin)[i] : i \in Hits(twin)}
           /\ TitleOf(page.kids, page.url) # TitleOf(twin.kids, twin.url)
           /\ DescriptionOf(page.kids) # DescriptionOf(twin.kids)
    /\ fields.match_count > 0

(***************************************************************************)
(* Spec: one invocation of lambda_handler.                                 *)
(*                                                                         *)
(* Exceptions.  An exception is named by its class; IsInstance follows     *)
(* the class hierarchy of requests.exceptions and of the builtins.         *)
(***************************************************************************)
Bases(cls) ==
    CASE cls = "ConnectTimeout" -> {"ConnectionError", "Timeout"}
      [] cls = "ReadTimeout" -> {"Timeout"}
      [] cls = "Timeout" -> {"RequestException"}
      [] cls = "ConnectionError" -> {"RequestException"}
      [] cls = "HTTPError" -> {"RequestException"}
      [] cls = "TooManyRedirects" -> {"RequestException"}
      [] cls = "RequestException" -> {"Exception"}
      [] cls = "AttributeError" -> {"Exception"}
      [] cls = "ValueError" -> {"Exception"}
      [] cls = "ClientError" -> {"Exception"}
      [] OTHER -> {}

RECURSIVE IsInstance(_, _)
IsInstance(cls, of) ==
    cls = of \/ \E b \in Bases(cls) : IsInstance(b, of)

NoResponse == [kind |-> "none", statusCode |-> 0, body |-> None]

\* the exception leaves lambda_handler: the caller gets no response of it
Escaped(exc) == [kind |-> "exception", statusCode |-> 0, body |-> Raised(exc)]

\* _error(status_code, message): body is json.dumps({"error": message})
Error(status, message) ==
    [kind |-> "response", statusCode |-> status,
     body |-> [json |-> [error |-> message]]]

\* the return of lambda_handler after the try
Ok(result) ==
    [kind |-> "response", statusCode |-> 200, body |-> [json |-> result]]

Preflight == [kind |-> "response", statusCode |-> 200, body |-> [text |-> ""]]

\* the except clauses of lambda_handler, in their order
OnException(exc) ==
    IF IsInstance(exc, "Timeout") THEN Error(504, "timeout")
    ELSE IF IsInstance(exc, "HTTPError") THEN Error(502, "http error")
    ELSE IF IsInstance(exc, "TooManyRedirects") THEN Error(502, "redirects")
    ELSE IF IsInstance(exc, "RequestException") THEN Error(502, "request failed")
    ELSE Error(500, "internal error")

(***************************************************************************)
(* The event.  body is absent, no JSON, JSON that is no object, or an      *)
(* object; an entry of the object is Missing, a value that is no string,   *)
(* or a string.                                                            *)
(***************************************************************************)
Missing == [t |-> "missing"]
NotAString == [t |-> "number"]

KeywordValues == {Missing, NotAString, Str(<<>>, TRUE), Str(<<"a">>, TRUE)}
UrlValues == {Missing, NotAString, Str(<<>>, TRUE), Str(<<PageUrl>>, FALSE)}

Bodies ==
    { [kind |-> "absent"], [kind |-> "malformed"], [kind |-> "non_object"] }
    \cup { [kind |-> "object", keyword |-> k, url |-> u] :
             k \in KeywordValues, u \in UrlValues }

Events == [method : {"POST", "OPTIONS"}, body : Bodies]

\* body.get(name, "").strip(): the value, the stripped string, or the
\* AttributeError of a value that has no strip
GetStripped(value) ==
    IF value = Missing THEN Str(<<>>, FALSE)
    ELSE IF value = NotAString THEN Raised("AttributeError")
    ELSE Strip(value)

Parsed(body) ==
    IF body.kind = "malformed" THEN [t |-> "return", response |-> Error(400, "bad json")]
    ELSE IF body.kind = "absent"
    THEN [t |-> "return", response |-> Error(400, "keyword required")]
    ELSE IF body.kind = "non_object" THEN Raised("AttributeError")
    ELSE LET kw == GetStripped(body.keyword)
             url == GetStripped(body.url)
         IN  IF IsRaised(kw) THEN kw
             ELSE IF IsRaised(url) THEN url
             ELSE IF kw.v = <<>>
             THEN [t |-> "return", response |-> Error(400, "keyword required")]
             ELSE [t |-> "go", keyword |-> kw.v, target |-> url.v]

(***************************************************************************)
(* Upstream outcomes.                                                      *)
(***************************************************************************)
NoUpstream == [page |-> "none", web |-> "none", img |-> "none"]

FetchOutcomes ==
    {"ok", "read_timeout", "connect_timeout", "http_error", "redirects",
     "transport"}
WebOutcomes == FetchOutcomes \cup {"bad_payload"}
ImageSearchOutcomes == {"ok", "non2xx", "read_timeout", "transport"}

\* what requests.get / raise_for_status / the decoding of the payload raise
ExceptionOf(outcome) ==
    CASE outcome = "read_timeout" -> "ReadTimeout"
      [] outcome = "connect_timeout" -> "ConnectTimeout"
      [] outcome = "http_error" -> "HTTPError"
      [] outcome = "redirects" -> "TooManyRedirects"
      [] outcome = "transport" -> "ConnectionError"
      [] outcome = "bad_payload" -> "AttributeError"

\* the documents a fetched page parses to, without its img elements, which
\* the harvesting loop is handed one at a time
HandlerTrees ==
    { <<>>,
      << E("title", << T(<<"a">>, 3) >>),
         E("nav", << E("p", << T(<<"a">>, 30) >>) >>),
         Meta("description", Str(<<"d1">>, TRUE)),
         E("p", << T(<<"A">>, 20) >>) >> }

\* web_data of the search API: its items may lack any entry
WebItems ==
    { <<>>,
      << [title |-> "t1", url |-> "u1", description |-> "s1",
          meta_url |-> [hostname |-> "h1"]],
         [url |-> "u2"] >> }

Get(item, name, default) == IF name \in DOMAIN item THEN item[name] ELSE default

\* lines 243-250 and the non-image entries of the dict search_brave returns
SearchFields(kw, items) ==
    LET results ==
          [i \in 1..Len(items) |->
             [title |-> Get(items[i], "title", ""),
              url |-> Get(items[i], "url", ""),
              snippet |-> Get(items[i], "description", ""),
              display_url |-> Get(Get(items[i], "meta_url", <<>>), "hostname", "")]]
    IN  [mode |-> "search", keyword |-> kw, results |-> results,
         result_count |-> Len(results)]

\* the dict returned by scrape_url / search_brave
ResultOf(f, imgs) == f @@ [images |-> imgs, image_count |-> Len(imgs)]

(***************************************************************************)
(* Image elements and their sources.  The src of the i-th img element is   *)
(* blank, a data: URI, a relative reference, an absolute URL (with the     *)
(* page's scheme, with another scheme, or with the scheme in capitals), or *)
(* a reference urljoin rejects ("//[" : ValueError, Invalid IPv6 URL).     *)
(* Every fetchable form at position i names the same image i.              *)
(***************************************************************************)
Src(kind, scheme, n) == [kind |-> kind, scheme |-> scheme, n |-> n]

SrcsAt(i) ==
    { Src("blank", "", 0), Src("data", "data", 0), Src("relative", "", i),
      Src("absolute", "https", i), Src("absolute", "javascript", 0),
      Src("absolute", "HTTP", i), Src("malformed", "", 0) }

\* an img element: every second one has no alt attribute
ImgAt(src, i) ==
    IF i % 2 = 0 THEN [src |-> src] ELSE [src |-> src, alt |-> "alt text"]

LowerScheme(scheme) == IF scheme = "HTTP" THEN "http" ELSE scheme

Url(scheme, n) == [t |-> "url", scheme |-> scheme, n |-> n]

\* urllib.parse.urljoin(base_url, src): a reference without scheme takes
\* the base's; one whose scheme differs from the base's is returned as it
\* is written; one with the base's scheme is rebuilt with it
UrlJoin(base, src) ==
    IF src.kind = "malformed" THEN Raised("ValueError")
    ELSE IF src.scheme = "" THEN Url(base.scheme, src.n)
    ELSE IF LowerScheme(src.scheme) = base.scheme THEN Url(base.scheme, src.n)
    ELSE Url(src.scheme, src.n)

\* full_url.startswith(("http://", "https://"))
StartsWithHttp(url) == url.scheme \in {"http", "https"}

BaseUrl == Url("https", 0)

\* the answers drawn for an image in an invocation
HandlerAnswers ==
    { Answer("timeout", 0, None, "ok"),
      Answer("ok", 404, CType("text", "html", ""), "ok"),
      Answer("ok", 200, CType("text", "html", "; charset=utf-8"), "ok"),
      Answer("ok", 200, Jpeg, "fail"),
      Answer("ok", 200, Jpeg, "ok"),
      Answer("ok", 200, None, "ok") }

NoAnswer == Answer("none", 0, None, "none")

\* what a loop step took: the source, the answer its upload got (if one was
\* attempted), how many images the list had before, and how many uploads
\* of the invocation have given no result so far
Taken(src, answer, attempted, had, fails) ==
    [src |-> src, answer |-> IF attempted THEN answer ELSE NoAnswer,
     attempted |-> attempted, had |-> had, fails |-> fails]

Continue(imgs, attempted, o) ==
    [t |-> "continue", images |-> imgs, attempted |-> attempted, o |-> o]

Abort(exc, attempted, o) ==
    [t |-> "raise", exc |-> exc, attempted |-> attempted, o |-> o]

NoCall == Outcome(None, None, {})

\* one pass through the body of the for loop of _collect_images, lines
\* 168-183, for the element img and the answer a its upload would get
CollectOne(img, a, imgs) ==
    IF img.src.kind = "blank" \/ img.src.scheme = "data"
    THEN Continue(imgs, FALSE, NoCall)
    ELSE LET full == UrlJoin(BaseUrl, img.src) IN
         IF IsRaised(full) THEN Abort(full.exc, FALSE, NoCall)
         ELSE IF ~StartsWithHttp(full) THEN Continue(imgs, FALSE, NoCall)
         ELSE LET o == UploadImage(full, a) IN
              IF IsRaised(o.ret) THEN Abort(o.ret.exc, TRUE, o)
              ELSE IF o.ret = None THEN Continue(imgs, TRUE, o)
              ELSE Continue(Append(imgs, [original_url |-> full,
                                          s3_url |-> o.ret,
                                          alt |-> Get(img, "alt", "")]),
                            TRUE, o)

\* the empty string where a URL is expected
EmptyUrl == Url("", 0)

\* an item of the image search: its properties.url is absent or empty, or
\* the URL of image i
ItemsAt(i) ==
    { [title |-> "no url"],
      [title |-> "empty url", properties |-> [url |-> EmptyUrl]],
      [title |-> "image", properties |-> [url |-> Url("https", i)]] }

\* one pass through the body of the for loop of search_brave, lines 263-272
SearchOne(item, a, imgs) ==
    LET src == Get(Get(item, "properties", <<>>), "url", EmptyUrl) IN
    IF src = EmptyUrl THEN Continue(imgs, FALSE, NoCall)
    ELSE LET o == UploadImage(src, a) IN
         IF IsRaised(o.ret) THEN Abort(o.ret.exc, TRUE, o)
         ELSE IF o.ret = None THEN Continue(imgs, TRUE, o)
         ELSE Continue(Append(imgs, [original_url |-> src, s3_url |-> o.ret,
                                     alt |-> Get(item, "title", "")]),
                       TRUE, o)

Min(a, b) == IF a < b THEN a ELSE b

\* img elements with a src attribute in a page; items in an answer of the
\* image search
MaxImgTags == MAX_IMAGES + MaxMisses
MaxItems == MAX_IMAGES + MaxMisses

\* the loop may take an element that yields no image while fewer than
\* MaxMisses of those before it did so
MayMiss(r, imgs, n) ==
    IF r.t = "raise" THEN TRUE
    ELSE IF r.images # imgs THEN TRUE ELSE n - Len(imgs) < MaxMisses

NoTail == [n |-> 0, eligible |-> 0]

NoTaken == Taken(Src("none", "", 0), NoAnswer, FALSE, 0, 0)

\* the uploads without result, after a step that gave r
FailsAfter(r, imgs, before) ==
    IF r.attempted /\ (IF r.t = "raise" THEN TRUE ELSE r.images = imgs)
    THEN before + 1 ELSE before

(***************************************************************************)
(* The actions.                                                            *)
(***************************************************************************)
Init ==
    /\ pc = "start"
    /\ event \in Events
    /\ bucket \in BOOLEAN
    /\ keyword = <<>> /\ target = <<>>
    /\ page = None /\ fields = None
    /\ images = <<>> /\ idx = 0 /\ cur = NoTaken /\ tail = NoTail
    /\ sent = {} /\ response = NoResponse /\ upstream = NoUpstream
    /\ store = {} /\ given = <<>>
    /\ twin = None /\ twinFields = None

\* lambda_handler, lines 58-77
HandleEvent ==
    /\ pc = "start"
    /\ IF event.method = "OPTIONS"
       THEN /\ response' = Preflight /\ pc' = "done"
            /\ UNCHANGED <<keyword, target>>
       ELSE LET p == Parsed(event.body) IN
            IF IsRaised(p)
            THEN /\ response' = Escaped(p.exc) /\ pc' = "done"
                 /\ UNCHANGED <<keyword, target>>
            ELSE IF p.t = "return"
            THEN /\ response' = p.response /\ pc' = "done"
                 /\ UNCHANGED <<keyword, target>>
            ELSE /\ keyword' = p.keyword /\ target' = p.target
                 /\ pc' = IF p.target # <<>> THEN "scrape" ELSE "search"
                 /\ UNCHANGED response
    /\ UNCHANGED <<event, bucket, page, fields, images, idx, cur, tail, sent,
                   store, given, upstream, twin, twinFields>>

\* scrape_url, lines 107-153, up to the loop of _collect_images
ScrapeFetch ==
    /\ pc = "scrape"
    /\ \E o \in FetchOutcomes, tree \in HandlerTrees :
         /\ sent' = sent \cup {"page"}
         /\ upstream' = [upstream EXCEPT !.page = o]
         /\ IF o # "ok"
            THEN /\ response' = OnException(ExceptionOf(o)) /\ pc' = "done"
                 /\ UNCHANGED <<page, fields>>
            ELSE /\ page' = [url |-> target[1], kids |-> tree]
                 /\ fields' = Extract(page', keyword)
                 /\ IF bucket
                    THEN pc' = "collect" /\ UNCHANGED response
                    ELSE /\ response' = Ok(ResultOf(fields', <<>>))
                         /\ pc' = "done"
    /\ UNCHANGED <<event, bucket, keyword, target, images, idx, cur, tail,
                   store, given, twin, twinFields>>

\* _collect_images, lines 164-183: the next img element, below the cap
CollectStep ==
    /\ pc = "collect"
    /\ idx < MaxImgTags
    /\ Len(images) < MAX_IMAGES
    /\ \E src \in SrcsAt(idx + 1), a \in HandlerAnswers :
         LET r == CollectOne(ImgAt(src, idx + 1), a, images) IN
         /\ MayMiss(r, images, idx)
         /\ idx' = idx + 1
         /\ cur' = Taken(src, a, r.attempted, Len(images),
                         FailsAfter(r, images, cur.fails))
         /\ sent' = sent \cup r.o.sent
         /\ store' = IF r.o.key = None THEN store ELSE store \cup {r.o.key}
         /\ IF r.t = "raise"
            THEN /\ response' = OnException(r.exc) /\ pc' = "done"
                 /\ \E k \in 0..(MaxImgTags - idx') :
                      tail' = [n |-> MaxImgTags - idx', eligible |-> k]
                 /\ UNCHANGED images
            ELSE /\ images' = r.images
                 /\ UNCHANGED <<response, pc, tail>>
    /\ UNCHANGED <<event, bucket, keyword, target, page, fields, given,
                   upstream, twin, twinFields>>

\* lines 165-166 and 185, 143-153, 97-101: the next img element finds the
\* cap reached; what lies from it on is never looked at
CollectBreak ==
    /\ pc = "collect"
    /\ idx < MaxImgTags
    /\ Len(images) >= MAX_IMAGES
    /\ \E k \in 0..(MaxImgTags - idx) :
         tail' = [n |-> MaxImgTags - idx, eligible |-> k]
    /\ response' = Ok(ResultOf(fields, images))
    /\ pc' = "done"
    /\ UNCHANGED <<event, bucket, keyword, target, page, fields, images, idx,
                   cur, sent, store, given, upstream, twin, twinFields>>

\* lines 185, 143-153, 97-101: no img element is left
CollectEnd ==
    /\ pc = "collect"
    /\ response' = Ok(ResultOf(fields, images))
    /\ pc' = "done"
    /\ UNCHANGED <<event, bucket, keyword, target, page, fields, images, idx,
                   cur, tail, sent, store, given, upstream, twin, twinFields>>

\* search_brave, lines 227-254: the web search
SearchWeb ==
    /\ pc = "search"
    /\ \E o \in WebOutcomes, items \in WebItems :
         /\ sent' = sent \cup {"web"}
         /\ upstream' = [upstream EXCEPT !.web = o]
         /\ IF o # "ok"
            THEN /\ response' = OnException(ExceptionOf(o)) /\ pc' = "done"
                 /\ UNCHANGED fields
            ELSE /\ fields' = SearchFields(keyword, items)
                 /\ IF bucket
                    THEN pc' = "search_images" /\ UNCHANGED response
                    ELSE /\ response' = Ok(ResultOf(fields', <<>>))
                         /\ pc' = "done"
    /\ UNCHANGED <<event, bucket, keyword, target, page, images, idx, cur,
                   tail, store, given, twin, twinFields>>

\* search_brave, lines 255-262: the image search; of n items the loop
\* takes the first MAX_IMAGES
SearchImages ==
    /\ pc = "search_images"
    /\ \E o \in ImageSearchOutcomes :
         /\ sent' = sent \cup {"imgsearch"}
         /\ upstream' = [upstream EXCEPT !.img = o]
         /\ IF o = "non2xx"
            THEN /\ response' = Ok(ResultOf(fields, images)) /\ pc' = "done"
                 /\ UNCHANGED tail
            ELSE IF o # "ok"
            THEN /\ response' = OnException(ExceptionOf(o)) /\ pc' = "done"
                 /\ UNCHANGED tail
            ELSE /\ \E n \in 0..MaxItems :
                      \E k \in 0..(n - Min(n, MAX_IMAGES)) :
                         tail' = [n |-> n, eligible |-> k]
                 /\ pc' = "search_loop"
                 /\ UNCHANGED response
    /\ UNCHANGED <<event, bucket, keyword, target, page, fields, images, idx,
                   cur, store, given, twin, twinFields>>

\* search_brave, lines 262-272: the next of the first MAX_IMAGES items
SearchStep ==
    /\ pc = "search_loop"
    /\ idx < Min(tail.n, MAX_IMAGES)
    /\ \E item \in ItemsAt(idx + 1), a \in HandlerAnswers :
         LET r == SearchOne(item, a, images) IN
         /\ MayMiss(r, images, idx)
         /\ idx' = idx + 1
         /\ cur' = Taken(Src(IF r.attempted THEN "item" ELSE "blank", "", idx'),
                         a, r.attempted, Len(images),
                         FailsAfter(r, images, cur.fails))
         /\ sent' = sent \cup r.o.sent
         /\ store' = IF r.o.key = None THEN store ELSE store \cup {r.o.key}
         /\ IF r.t = "raise"
            THEN /\ response' = OnException(r.exc) /\ pc' = "done"
                 /\ UNCHANGED images
            ELSE /\ images' = r.images
                 /\ UNCHANGED <<response, pc>>
    /\ UNCHANGED <<event, bucket, keyword, target, page, fields, tail, given,
                   upstream, twin, twinFields>>

\* lines 274-281, 97-101: the items are used up
SearchEnd ==
    /\ pc = "search_loop"
    /\ idx = Min(tail.n, MAX_IMAGES)
    /\ response' = Ok(ResultOf(fields, images))
    /\ pc' = "done"
    /\ UNCHANGED <<event, bucket, keyword, target, page, fields, images, idx,
                   cur, tail, sent, store, given, upstream, twin, twinFields>>

Next ==
    \/ HandleEvent
    \/ ScrapeFetch
    \/ CollectStep
    \/ CollectBreak
    \/ CollectEnd
    \/ SearchWeb
    \/ SearchImages
    \/ SearchStep
    \/ SearchEnd

Spec == Init /\ [][Next]_vars

(***************************************************************************)
(* Claims about an invocation (checked under Spec).                        *)
(***************************************************************************)
Json(r) == r.body.json

HasImages(r) ==
    r.kind = "response" /\ "json" \in DOMAIN r.body /\ "images" \in DOMAIN Json(r)

ErrorOnly(r) ==
    r.kind = "response" /\ "json" \in DOMAIN r.body /\ DOMAIN Json(r) = {"error"}

\* C1: with a bucket, in scrape mode and in search mode, a page or an
\* image-search result holding more than MAX_IMAGES eligible images (the
\* images taken plus the eligible ones never looked at) gives exactly
\* MAX_IMAGES images, and image_count is the length of images.
C1_CapInvariant ==
    ( /\ pc = "done" /\ bucket /\ response.statusCode = 200
      /\ (upstream.page = "ok" \/ upstream.img = "ok")
      /\ Len(images) + tail.eligible > 10 )
    => /\ HasImages(response)
       /\ Len(Json(response).images) = 10
       /\ Json(response).image_count = Len(Json(response).images)

\* timeout, non-2xx status, transport error, non-image content type,
\* put_object failure
Fails(a) ==
    \/ a.net # "ok"
    \/ a.status >= 400
    \/ (a.ctype # None /\ a.ctype.main # "image")
    \/ a.put # "ok"

\* the harvesting of the invocation ran to its end: the page or the image
\* search was answered and every src could be resolved
Harvested ==
    /\ pc = "done" /\ bucket
    /\ (upstream.page = "ok" \/ upstream.img = "ok")
    /\ cur.src.kind # "malformed"

C2_Final ==
    Harvested =>
      /\ response.statusCode = 200
      /\ HasImages(response)
      /\ Json(response).images = images
      /\ Json(response).image_count = Len(images)
      /\ [k \in DOMAIN Json(response) \ {"images", "image_count"} |->
            Json(response)[k]]
           = (IF upstream.page = "ok" THEN Extract(page, keyword)
              ELSE fields)

C2_Step ==
    (pc \in {"collect", "search_loop"} /\ idx' = idx + 1 /\ cur'.attempted)
    => /\ pc' = pc /\ response' = response /\ fields' = fields
       /\ IF Fails(cur'.answer)
          THEN images' = images /\ store' = store
          ELSE /\ Len(images') = Len(images) + 1
               /\ SubSeq(images', 1, Len(images)) = images
               /\ images'[Len(images')].original_url.n = idx'

\* C2: whatever each image's fetch and put do, _upload_image_to_s3 gives
\* no result instead of raising, that image alone is left out, the loop
\* goes on with the next candidate, and the response stays 200 with every
\* field other than images and image_count as it was.
C2_PerImageSoftFailure == [] C2_Final /\ [][C2_Step]_vars

\* an invocation answered 200 whose last upload succeeded after two
\* uploads had failed
C2_Witness ==
    /\ Harvested
    /\ response.statusCode = 200
    /\ cur.attempted /\ ~Fails(cur.answer)
    /\ cur.fails >= 2
    /\ Len(images) >= 2

\* C3: in search mode with a bucket, once the web search has succeeded, a
\* failure of the image search is soft: status 200, images empty,
\* image_count 0, and every web result and result_count in the response.
C3_ImageSearchFailureIsSoft ==
    ( /\ pc = "done" /\ bucket /\ upstream.web = "ok"
      /\ upstream.img \notin {"none", "ok"} )
    => /\ response.statusCode = 200
       /\ HasImages(response)
       /\ Json(response).images = <<>>
       /\ Json(response).image_count = 0
       /\ Json(response).results = fields.results
       /\ Json(response).result_count = fields.result_count

\* C4: every POST event, whatever its body and whatever the upstream calls
\* do, gets a response with a status in {200, 400, 500, 502, 504} and a
\* JSON body; no exception leaves lambda_handler.
C4_AlwaysJsonResponse ==
    (pc = "done" /\ event.method = "POST")
    => /\ response.kind = "response"
       /\ response.statusCode \in {200, 400, 500, 502, 504}
       /\ "json" \in DOMAIN response.body

KeywordAbsent ==
    \/ event.body.kind = "absent"
    \/ /\ event.body.kind = "object"
       /\ event.body.keyword \in {Missing, Str(<<>>, TRUE)}

OtherBodyFault ==
    \/ event.body.kind = "non_object"
    \/ /\ event.body.kind = "object"
       /\ ~KeywordAbsent
       /\ NotAString \in {event.body.keyword, event.body.url}

Outcomes == {upstream.page, upstream.web, upstream.img}

\* C5: malformed JSON or a missing or blank keyword gives 400 and no
\* outbound request; a timeout of the page fetch or of the search API
\* gives 504; a non-2xx status, too many redirects or any other request
\* failure of them gives 502; any other fault gives 500 (a body that is
\* bad input: 400 or 500); each time the body is {error} alone.
C5_StatusMapping ==
    (pc = "done" /\ event.method = "POST")
    => /\ (event.body.kind = "malformed" \/ KeywordAbsent)
            => (response.statusCode = 400 /\ ErrorOnly(response) /\ sent = {})
       /\ OtherBodyFault
            => (response.statusCode \in {400, 500} /\ ErrorOnly(response))
       /\ (Outcomes \cap {"read_timeout", "connect_timeout"} # {})
            => (response.statusCode = 504 /\ ErrorOnly(response))
       /\ ( \/ {upstream.page, upstream.web}
                 \cap {"http_error", "redirects", "transport"} # {}
            \/ upstream.img = "transport" )
            => (response.statusCode = 502 /\ ErrorOnly(response))
       /\ (upstream.web = "bad_payload" \/ cur.src.kind = "malformed")
            => (response.statusCode = 500 /\ ErrorOnly(response))

\* what the invocation answers to the same event and the same page or web
\* search when no bucket is configured
WithoutBucket ==
    IF upstream.page = "ok" \/ upstream.web = "ok"
    THEN Ok(ResultOf(fields, <<>>))
    ELSE response

ButImages(r) ==
    IF HasImages(r)
    THEN [k \in DOMAIN Json(r) \ {"images", "image_count"} |-> Json(r)[k]]
    ELSE r.body

\* C8: without a bucket no image search, image fetch or put is issued,
\* images is empty and image_count 0, and the response is, but for images
\* and image_count, the one a bucket would give.
C8_NoBucketSameResponse ==
    pc = "done" =>
      /\ ~bucket =>
           /\ sent \cap {"imgsearch", "imgfetch", "put"} = {}
           /\ response = WithoutBucket
           /\ HasImages(response) =>
                (Json(response).images = <<>> /\ Json(response).image_count = 0)
      /\ response.kind = WithoutBucket.kind
      /\ response.statusCode = WithoutBucket.statusCode
      /\ ButImages(response) = ButImages(WithoutBucket)

\* the source is not empty, is no data: URI and resolves to an http or
\* https URL
Qualifies(src) ==
    /\ src.kind \notin {"blank", "malformed"}
    /\ src.scheme # "data"
    /\ StartsWithHttp(UrlJoin(BaseUrl, src))

\* C10: in scrape mode with a bucket an upload is attempted for an img
\* element exactly when its source qualifies and fewer than MAX_IMAGES
\* earlier uploads succeeded; a failed upload does not count and the loop
\* goes on; nothing is fetched or put after the MAX_IMAGES-th success, so
\* no qualifying element is left out below the cap and the result never
\* exceeds MAX_IMAGES.
C10_UploadIffQualifying ==
    (bucket /\ upstream.page = "ok") =>
      /\ idx > 0 => (cur.attempted <=> (Qualifies(cur.src) /\ cur.had < 10))
      /\ (idx > 0 /\ cur.attempted /\ Fails(cur.answer)) =>
           (Len(images) = cur.had /\ response.statusCode \in {0, 200})
      /\ Len(images) <= 10
      /\ (pc = "done" /\ tail.eligible > 0) => Len(images) >= 10

====
